---- MODULE Spec2Model ----
(***************************************************************************)
(* A model of kiwi-store's log-backed engine (src/src/store/kiwi_store.rs): *)
(* the append-only command log kvs.db, the in-memory keydir (the field      *)
(* `store`), compaction through the sibling temporary file, recovery on     *)
(* open, and the RwLock facade that clones share.                           *)
(*                                                                         *)
(* Files are modelled at byte granularity without spelling out the bytes:   *)
(* a file is a sequence of chunks, a chunk being the first n bytes of the   *)
(* JSON line of one command.  Offsets, lengths and the compaction threshold *)
(* are byte counts, as in the code.  Keys and values are plain ASCII text   *)
(* without characters that JSON escapes, so the encoded length of a record  *)
(* is the fixed overhead plus the lengths of its key and value.  A value is *)
(* a run of n copies of one character, written [c |-> .., n |-> ..], so     *)
(* that a value of tens of kilobytes is a small term.                       *)
(*                                                                         *)
(* An operator that uses an intermediate result several times takes it as a *)
(* parameter of a helper operator (read_line / line_from, set / set_index,  *)
(* ...), which keeps the expression tree TLC builds for its coverage        *)
(* statistics small.                                                        *)
(***************************************************************************)
EXTENDS Naturals, Sequences, FiniteSets, TLC

\* ---------------------------------------------------------------- inputs

Keys == {"a", "b"}

\* Length of the long value: two records holding it exceed the threshold.
BigLen == 65536

\* Number of Set/Remove calls in a behaviour.
MaxOps == 4

\* Number of Set/Remove calls, and of I/O failures and crashes, in a
\* behaviour of SpecFault.
MaxFaultOps == 3
MaxFaults == 1

\* Number of calls in a behaviour of SpecConc.
MaxConcOps == 4

\* The threads that hold a clone of the store in SpecConc.
Threads == {"t1", "t2"}

\* The number of chunks of the logs that SpecOpen opens.
MaxLogLen == 3

\* The largest thread count passed to ThreadPool::new and the number of
\* jobs passed to spawn in a behaviour of SpecPool.
MaxThreads == 2
MaxJobs == 3

Text(c, n) == [c |-> c, n |-> n]
Small == Text("1", 1)
Big == Text("x", BigLen)
Values == {Small, Big}
NoValue == Text("", 0)

\* ---------------------------------------------------------- record codec

\* enum Command { Set((String, String)), Remove(String) }
SetCmd(k, v) == [op |-> "Set", key |-> k, value |-> v]
RemoveCmd(k) == [op |-> "Remove", key |-> k, value |-> NoValue]
NoCmd == [op |-> "None", key |-> "", value |-> NoValue]

\* Not a command: the content of a line whose bytes are not UTF-8.
Binary == [op |-> "Binary", key |-> "", value |-> NoValue]

\* Bytes of serde_json::to_string(&cmd) + "\n":
\*   {"Set":["<key>","<value>"]}\n   and   {"Remove":"<key>"}\n
\* The line that is not UTF-8 is the byte 0xFF and a newline.
RecLen(cmd) ==
  IF cmd.op = "Set" THEN 16 + Len(cmd.key) + cmd.value.n
  ELSE IF cmd.op = "Binary" THEN 2
  ELSE 14 + Len(cmd.key)

\* The first n bytes of the line of cmd; the whole line when n = RecLen(cmd).
Chunk(cmd, n) == [cmd |-> cmd, n |-> n]
Line(cmd) == Chunk(cmd, RecLen(cmd))
Complete(ch) == ch.n = RecLen(ch.cmd)

\* ------------------------------------------------------------------ files

LogName == "kvs.db"
\* full_path.with_extension(".tmp"): the stem "kvs", a dot, then ".tmp"
TmpName == "kvs..tmp"

RECURSIVE FileLen(_)
FileLen(f) == IF f = <<>> THEN 0 ELSE f[1].n + FileLen(Tail(f))

\* Offset of the first byte of chunk i of f.
Start(f, i) == FileLen(SubSeq(f, 1, i - 1))

\* Index of the chunk that ends the line starting in chunk i: the first chunk
\* from i on that holds its newline, or the last chunk of the file.
LineEnd(f, i) ==
  IF \E j \in i..Len(f) : Complete(f[j])
  THEN CHOOSE j \in i..Len(f) :
         Complete(f[j]) /\ \A m \in i..(j - 1) : ~Complete(f[m])
  ELSE Len(f)

\* Index of the chunk that holds byte o of f, for o < FileLen(f).
ChunkAt(f, o) ==
  CHOOSE i \in 1..Len(f) : Start(f, i) <= o /\ o < Start(f, i) + f[i].n

\* The line read from offset o, which lies in chunk i: n the number of bytes
\* read, skip the number of bytes of chunk i that lie before o.
line_from(f, o, i) ==
  [n |-> FileLen(SubSeq(f, 1, LineEnd(f, i))) - o,
   skip |-> o - Start(f, i),
   chunks |-> SubSeq(f, i, LineEnd(f, i))]

\* read_line appends to a String: it returns an io::Error of kind
\* InvalidData when the bytes it read are not UTF-8.  The byte 0xFF is the
\* first byte of the Binary line: a read that starts behind it, at the
\* newline, reads "\n" alone.
is_utf8(buffer) ==
  \A i \in DOMAIN buffer.chunks :
    buffer.chunks[i].cmd.op = "Binary" =>
      \/ buffer.chunks[i].n = 0
      \/ i = 1 /\ buffer.skip > 0

\* BufReader::read_line from byte offset o: the bytes up to and including
\* the next newline, or up to the end of the file; no bytes (n = 0) at or
\* past the end of the file.
read_line(f, o) ==
  IF o >= FileLen(f) THEN [n |-> 0, skip |-> 0, chunks |-> <<>>]
  ELSE line_from(f, o, ChunkAt(f, o))

\* serde_json::from_str::<Command>(&buffer).  The buffer decodes exactly
\* when it is the JSON text of one command, with or without the newline
\* after it: a text that starts inside a record, stops short of the closing
\* brace, or runs on into the bytes of another record is a syntax error,
\* and so is the empty buffer.
from_str(buffer) ==
  IF /\ buffer.skip = 0
     /\ Len(buffer.chunks) = 1
     /\ buffer.chunks[1].n >= RecLen(buffer.chunks[1].cmd) - 1
  THEN [ok |-> TRUE, cmd |-> buffer.chunks[1].cmd]
  ELSE [ok |-> FALSE, cmd |-> NoCmd]

\* ----------------------------------------------------------------- keydir

EmptyStore == [k \in {} |-> 0]
insert(kd, k, o) == [x \in DOMAIN kd \cup {k} |-> IF x = k THEN o ELSE kd[x]]
erase(kd, k) == [x \in DOMAIN kd \ {k} |-> kd[x]]

\* The orders in which HashMap::iter_mut may visit the keys of kd.
IterOrders(kd) ==
  {s \in [1..Cardinality(DOMAIN kd) -> DOMAIN kd] :
     \A i, j \in DOMAIN s : s[i] = s[j] => i = j}

\* ----------------------------------------------------------------- faults

\* An I/O failure injected into one call: step names the failing system
\* call, at the iteration of the compaction loop (0 elsewhere), cut the
\* number of bytes a failing append still wrote.
Fault(step, at, cut) == [step |-> step, at |-> at, cut |-> cut]
NoFault == Fault("none", 0, 0)

\* ---------------------------------------------------------- value_from_file

Result(res, value) == [res |-> res, value |-> value]

\* The match of value_from_file on the decoded line.
decoded_value(d) ==
  IF ~d.ok THEN Result("InvalidData", NoValue)
  ELSE IF d.cmd.op = "Remove" THEN Result("Panic", NoValue)
  ELSE Result("Ok", d.cmd.value)

\* value_from_file from the line it read.
value_of_line(buffer) ==
  IF ~is_utf8(buffer) THEN Result("Io", NoValue)
  ELSE decoded_value(from_str(buffer))

\* value_from_file(path, offset) with path naming the file f; io_fails when
\* opening, seeking or reading fails.
value_from_file(f, offset, io_fails) ==
  IF io_fails THEN Result("Io", NoValue)
  ELSE value_of_line(read_line(f, offset))

\* ------------------------------------------------------------- store core

\* The state the operations of KiwiStoreInner act on.  store is the keydir;
\* write_log says which file the append handle refers to: "canonical" for
\* the file now named kvs.db, "unlinked" for a file that a rename replaced
\* while the handle stayed open (its bytes are in unlinked).  files is the
\* directory listing; log and tmp are the bytes of kvs.db and kvs..tmp.
World(st, wl, fs, l, t, u) ==
  [store |-> st, write_log |-> wl, files |-> fs, log |-> l, tmp |-> t,
   unlinked |-> u]

\* The file behind the append handle, and self.write_log.seek(SeekFrom::End(0)).
Handle(w) == IF w.write_log = "canonical" THEN w.log ELSE w.unlinked
seek_end(w) == FileLen(Handle(w))

\* 4000 * 21 in KiwiStoreInner::set
CompactThreshold == 4000 * 21

\* The rehydration loop of KiwiStoreInner::open: rehydrate reads a line,
\* rehydrate_line ends the loop at the end of the stream, rehydrate_cmd
\* applies the decoded command to the keydir.
RECURSIVE rehydrate(_, _, _)
\* An offset that does not count the terminator of the lines read.
rehydrate_cmd_unterminated(f, current_offset, kd, read_bytes, d) ==
  IF ~d.ok THEN [res |-> "InvalidData", store |-> kd]
  ELSE rehydrate(f, current_offset + read_bytes - 1,
                 IF d.cmd.op = "Set"
                 THEN insert(kd, d.cmd.key, current_offset)
                 ELSE erase(kd, d.cmd.key))

rehydrate_cmd(f, current_offset, kd, read_bytes, d) ==
  IF ~d.ok THEN [res |-> "InvalidData", store |-> kd]
  ELSE rehydrate(f, current_offset + read_bytes,
                 IF d.cmd.op = "Set"
                 THEN insert(kd, d.cmd.key, current_offset)
                 ELSE erase(kd, d.cmd.key))

rehydrate_line(f, current_offset, kd, buffer) ==
  IF ~is_utf8(buffer) THEN [res |-> "Io", store |-> kd]
  ELSE IF buffer.n = 0 THEN [res |-> "Ok", store |-> kd]
  ELSE rehydrate_cmd(f, current_offset, kd, buffer.n, from_str(buffer))

rehydrate(f, current_offset, kd) ==
  rehydrate_line(f, current_offset, kd, read_line(f, current_offset))

\* The end of KiwiStoreInner::open: the append handle is opened, which
\* creates kvs.db, unless the scan r failed.
open_log(fs, l, t, r) ==
  IF r.res # "Ok"
  THEN [res |-> r.res, w |-> World(EmptyStore, "canonical", fs, l, t, <<>>)]
  ELSE [res |-> "Ok",
        w |-> World(r.store, "canonical", fs \cup {LogName}, l, t, <<>>)]

\* KiwiStoreInner::open on a directory holding the files fs, kvs.db holding
\* l and kvs..tmp holding t.
open(fs, l, t) ==
  open_log(fs, l, t,
           IF LogName \in fs THEN rehydrate(l, 0, EmptyStore)
           ELSE [res |-> "Ok", store |-> EmptyStore])

\* write_all((command + "\n").as_bytes()) on the append handle: the bytes go
\* to the end of the file behind the handle.  A failing write leaves the
\* first fault.cut bytes of the line in the file.  at is the offset at which
\* the bytes were written.
append(w, cmd, fault) ==
  LET n == IF fault.step = "append" THEN fault.cut ELSE RecLen(cmd)
      f == IF n = 0 THEN Handle(w) ELSE Append(Handle(w), Chunk(cmd, n))
  IN [res |-> IF fault.step = "append" THEN "Io" ELSE "Ok",
      at |-> seek_end(w),
      w |-> IF w.write_log = "canonical" THEN [w EXCEPT !.log = f]
            ELSE [w EXCEPT !.unlinked = f]]

\* new_log.write((command + "\n").as_bytes()): the number of bytes of the
\* line of cmd that the one call of write takes.  A short write takes
\* fault.cut of them; write is not called again for the rest.
offset_change(cmd, i, fault) ==
  IF fault.step = "short" /\ fault.at = i /\ fault.cut < RecLen(cmd)
  THEN fault.cut
  ELSE RecLen(cmd)

\* The loop of KiwiStoreInner::compact over self.store.iter_mut(), visiting
\* the keys in the given order.  compact_loop reads the value at the key's
\* offset in the canonical log l; compact_entry writes a Set record to the
\* temporary file, overwrites the key's offset in place and advances
\* new_offset by what write returned.
RECURSIVE compact_loop(_, _, _, _, _, _, _)
compact_entry(kd, l, new_log, order, i, new_offset, fault, v) ==
  IF v.res # "Ok"
  THEN [res |-> v.res, store |-> kd, new_log |-> new_log]
  ELSE IF fault.step = "write" /\ fault.at = i
  THEN [res |-> "Io", store |-> kd, new_log |-> new_log]
  ELSE compact_loop([kd EXCEPT ![order[i]] = new_offset], l,
                    Append(new_log,
                           Chunk(SetCmd(order[i], v.value),
                                 offset_change(SetCmd(order[i], v.value), i,
                                               fault))),
                    order, i + 1,
                    new_offset + offset_change(SetCmd(order[i], v.value), i,
                                               fault),
                    fault)

compact_loop(kd, l, new_log, order, i, new_offset, fault) ==
  IF i > Len(order) THEN [res |-> "Ok", store |-> kd, new_log |-> new_log]
  ELSE compact_entry(kd, l, new_log, order, i, new_offset, fault,
                     value_from_file(l, kd[order[i]],
                                     fault.step = "read" /\ fault.at = i))

\* The temporary file and the keydir as the loop (result lp) leaves them.
Filled(w, lp) ==
  [w EXCEPT !.files = @ \cup {TmpName}, !.tmp = lp.new_log,
            !.store = lp.store]

\* fs::rename(&tmp_path, &path): kvs.db now names the bytes of the temporary
\* file; the append handle stays on the file that was replaced.
Renamed(w) ==
  [w EXCEPT !.log = w.tmp, !.tmp = <<>>, !.files = @ \ {TmpName},
            !.unlinked = Handle(w), !.write_log = "unlinked"]

\* self.write_log = OpenOptions::new().create(true).append(true).open(&path)?
Reopened(w) == [w EXCEPT !.write_log = "canonical", !.unlinked = <<>>]

\* The steps of KiwiStoreInner::compact after its loop.
compact_finish(w, lp, fault) ==
  IF lp.res # "Ok" THEN [res |-> lp.res, w |-> Filled(w, lp)]
  ELSE IF fault.step = "rename" THEN [res |-> "Io", w |-> Filled(w, lp)]
  ELSE IF fault.step = "reopen"
  THEN [res |-> "Io", w |-> Renamed(Filled(w, lp))]
  ELSE [res |-> "Ok", w |-> Reopened(Renamed(Filled(w, lp)))]

\* KiwiStoreInner::compact.  The temporary file is opened with create and
\* append: bytes it already holds stay, and new_offset starts at 0.
compact(w, order, fault) ==
  IF fault.step = "tmp_open" THEN [res |-> "Io", w |-> w]
  ELSE compact_finish(w,
         compact_loop(w.store, w.log,
                      IF TmpName \in w.files THEN w.tmp ELSE <<>>,
                      order, 1, 0, fault),
         fault)

\* A size check against the number of entries instead of the number of
\* bytes they take.
Compacts_AtEntries(w) == seek_end(w) > 4000

\* Whether this call of set runs compact.
Compacts(w) == seek_end(w) > CompactThreshold

Done(res, w) == [res |-> res, at |-> 0, w |-> w]

\* KiwiStoreInner::set after the size check: c is the result of compact (Ok
\* when it did not run), offset the end of the log queried before it.
set_index(c, offset, key) ==
  IF c.res # "Ok" THEN Done(c.res, c.w)
  ELSE Done("Ok", [c.w EXCEPT !.store = insert(@, key, offset)])

\* KiwiStoreInner::set up to self.store.insert(key.clone(), offset).
set_begin(w, key, order, fault) ==
  set_index(IF Compacts(w) THEN compact(w, order, fault)
            ELSE [res |-> "Ok", w |-> w],
            seek_end(w), key)

\* KiwiStoreInner::set from there: the record is encoded and appended.
set_end(b, key, value, fault) ==
  IF b.res # "Ok" THEN b ELSE append(b.w, SetCmd(key, value), fault)

\* KiwiStoreInner::set.
set(w, key, value, order, fault) ==
  set_end(set_begin(w, key, order, fault), key, value, fault)

\* self.store.get(&key)
get_lookup(w, key) ==
  IF key \in DOMAIN w.store THEN [some |-> TRUE, offset |-> w.store[key]]
  ELSE [some |-> FALSE, offset |-> 0]

\* The Some arm of KiwiStoreInner::get.
get_value(v) == Result(IF v.res = "Ok" THEN "Some" ELSE v.res, v.value)

\* The match of KiwiStoreInner::get on the looked-up offset.
get_read(w, o, io_fails) ==
  IF o.some THEN get_value(value_from_file(w.log, o.offset, io_fails))
  ELSE Result("None", NoValue)

\* KiwiStoreInner::get.
get(w, key, io_fails) == get_read(w, get_lookup(w, key), io_fails)

\* KiwiStoreInner::remove up to self.store.remove(&key).
remove_begin(w, key) ==
  IF key \in DOMAIN w.store
  THEN Done("Ok", [w EXCEPT !.store = erase(@, key)])
  ELSE Done("NoKey", w)

\* KiwiStoreInner::remove from there: the record is encoded and appended.
remove_end(b, key, fault) ==
  IF b.res # "Ok" THEN b ELSE append(b.w, RemoveCmd(key), fault)

\* KiwiStoreInner::remove.
remove(w, key, fault) == remove_end(remove_begin(w, key), key, fault)

\* ----------------------------------------------------------------- facade

\* A write guard whose drop during a panic leaves the lock usable.
under_write_unpoisoned(r) ==
  [res |-> r.res, at |-> r.at, w |-> r.w, poisoned |-> FALSE]

\* The write guard around a call r of the core: a panic poisons the lock.
under_write(r) ==
  [res |-> r.res, at |-> r.at, w |-> r.w, poisoned |-> (r.res = "Panic")]

\* self.inner.write().expect("error acquiring lock") on a poisoned lock.
lock_panic(w, p) == [res |-> "Panic", at |-> 0, w |-> w, poisoned |-> p]

\* impl KiwiEngine for KiwiStore: set
facade_set(w, p, key, value, order, fault) ==
  IF p THEN lock_panic(w, p)
  ELSE under_write(set(w, key, value, order, fault))

\* impl KiwiEngine for KiwiStore: get.  A panic under the read guard does
\* not poison the lock.
facade_get(w, p, key, io_fails) ==
  IF p THEN Result("Panic", NoValue) ELSE get(w, key, io_fails)

\* impl KiwiEngine for KiwiStore: remove
facade_remove(w, p, key, fault) ==
  IF p THEN lock_panic(w, p) ELSE under_write(remove(w, key, fault))

\* A read guard that is granted whatever guards are held.
CanRead_Unlocked(state) == DOMAIN state = DOMAIN state

\* RwLock::read is granted while no thread holds the write guard.
CanRead(state) == \A u \in DOMAIN state : state[u] \notin {"writing", "appending"}

\* A write guard that is granted beside the write guard of another thread.
CanWrite_BesideWriter(state) ==
  \A u \in DOMAIN state : state[u] \notin {"reading", "read_file"}

\* A write guard that is never granted while two threads wait: the wake-up
\* of the waiters is lost.
CanWrite_LostWakeup(state) ==
  /\ \A u \in DOMAIN state :
       state[u] \notin {"reading", "read_file", "writing", "appending"}
  /\ Cardinality({u \in DOMAIN state : state[u] = "waiting"}) <= 1

\* RwLock::write is granted while no thread holds a guard.
CanWrite(state) ==
  \A u \in DOMAIN state :
    state[u] \notin {"reading", "read_file", "writing", "appending"}

\* What a run of compact on w came to: its result c, with the keydir and
\* the log it left and what every key of the keydir resolved to before it.
Snapshot(w, c) ==
  [res |-> c.res, store |-> c.w.store, log |-> c.w.log,
   pre |-> [k \in DOMAIN w.store |-> get(w, k, FALSE)]]

NoCompaction ==
  [res |-> "None", store |-> EmptyStore, log |-> <<>>, pre |-> EmptyStore]

\* The compact that set runs on w, if it runs one.
Compaction(w, p, order, fault) ==
  IF p \/ ~Compacts(w) THEN NoCompaction
  ELSE Snapshot(w, compact(w, order, fault))

\* ------------------------------------------------------------------ state

VARIABLES
  store,      \* KiwiStoreInner.store: the keydir, key -> byte offset
  write_log,  \* KiwiStoreInner.write_log: the file the append handle is on
  files,      \* names present in the store directory
  log,        \* bytes of kvs.db
  tmp,        \* bytes of kvs..tmp
  unlinked,   \* bytes of the replaced log a stale append handle still holds
  up,         \* a store is open on the directory
  poisoned,   \* the RwLock of the open store is poisoned
  shadow,     \* key -> value: the effect of the calls that returned Ok
  last,       \* the call that completed last, with what it returned
  clean,      \* every call since the store was opened succeeded
  fresh,      \* the store was opened on an empty directory, once
  nops,       \* number of calls counted against the bound
  nfaults,    \* number of I/O failures and crashes so far
  pc,         \* SpecConc: where each thread is in its call
  req,        \* SpecConc: the call each thread is making
  off,        \* SpecConc: the offset a Get looked up in the keydir
  quiet,      \* SpecConc: no Set or Remove overlaps the thread's Get so far
  issued,     \* <<key, value>> of every Set called or found in a prior log
  compaction, \* the outcome of the compact that the last Set ran
  pool,       \* SpecPool: the thread pool that new(threads) built
  workers,    \* SpecPool: the worker threads of the pool
  queue,      \* SpecPool: the channel from spawn to the workers
  jobs,       \* SpecPool: the jobs passed to spawn
  db,         \* SledStoreInner.db: key -> value
  sled_up,    \* a sled store is open
  sled_last,  \* the sled call that completed last, with what it returned
  started     \* the last run of a server or of the CLI, and how it ended

svars == <<store, write_log, files, log, tmp, unlinked, up, poisoned, shadow,
           last, clean, fresh, nops, nfaults, compaction>>
cvars == <<pc, req, off, quiet, issued>>
pvars == <<pool, workers, queue, jobs>>
evars == <<db, sled_up, sled_last, started>>
vars == <<svars, cvars, pvars, evars>>

W == World(store, write_log, files, log, tmp, unlinked)

Install(w) ==
  /\ store' = w.store
  /\ write_log' = w.write_log
  /\ files' = w.files
  /\ log' = w.log
  /\ tmp' = w.tmp
  /\ unlinked' = w.unlinked

\* A completed call: res is what it returned, out the value a Get returned,
\* at the offset at which a Set or Remove wrote its record, fault the system
\* call that was made to fail during it, quiet that no Set or Remove
\* overlapped it.
Call(op, key, value, res, out, at, fault, q) ==
  [op |-> op, key |-> key, value |-> value, res |-> res, out |-> out,
   at |-> at, fault |-> fault.step, quiet |-> q]

Request(op, key, value) == [op |-> op, key |-> key, value |-> value]
NoRequest == Request("None", "", NoValue)
Requests ==
  {Request("Set", k, v) : k \in Keys, v \in Values}
  \cup {Request(op, k, NoValue) : op \in {"Get", "Remove"}, k \in Keys}

\* What the commands of a log amount to: key -> value of the live keys.
RECURSIVE Replay(_, _)
Replay(f, m) ==
  IF f = <<>> THEN m
  ELSE Replay(Tail(f), IF f[1].cmd.op = "Set"
                       THEN insert(m, f[1].cmd.key, f[1].cmd.value)
                       ELSE erase(m, f[1].cmd.key))

\* Logs an earlier run of the engine left in the directory: none, and two
\* Sets of the long value to one key, which brings the log over the threshold.
PriorLogs ==
  {<<>>, <<Line(SetCmd("a", Big)), Line(SetCmd("a", Big))>>}

InitWith(prior, r) ==
  /\ store = r.w.store
  /\ write_log = r.w.write_log
  /\ files = r.w.files
  /\ log = r.w.log
  /\ tmp = r.w.tmp
  /\ unlinked = r.w.unlinked
  /\ up = (r.res = "Ok")
  /\ poisoned = FALSE
  /\ shadow = Replay(prior, EmptyStore)
  /\ last = Call(IF r.res = "None" THEN "None" ELSE "Open", "", NoValue,
                 r.res, NoValue, 0, NoFault, TRUE)
  /\ clean = TRUE
  /\ fresh = (prior = <<>>)
  /\ nops = 0
  /\ nfaults = 0
  /\ pc = [t \in Threads |-> "idle"]
  /\ req = [t \in Threads |-> NoRequest]
  /\ off = [t \in Threads |-> [some |-> FALSE, offset |-> 0]]
  /\ quiet = [t \in Threads |-> TRUE]
  /\ issued = {<<prior[i].cmd.key, prior[i].cmd.value>> : i \in DOMAIN prior}
  /\ compaction = NoCompaction

\* No store is open and the directory is empty.
NoStore ==
  /\ store = EmptyStore
  /\ write_log = "canonical"
  /\ files = {}
  /\ log = <<>>
  /\ tmp = <<>>
  /\ unlinked = <<>>
  /\ up = FALSE
  /\ poisoned = FALSE
  /\ shadow = EmptyStore
  /\ last = Call("None", "", NoValue, "None", NoValue, 0, NoFault, TRUE)
  /\ clean = TRUE
  /\ fresh = FALSE
  /\ nops = 0
  /\ nfaults = 0
  /\ compaction = NoCompaction
  /\ pc = [t \in Threads |-> "idle"]
  /\ req = [t \in Threads |-> NoRequest]
  /\ off = [t \in Threads |-> [some |-> FALSE, offset |-> 0]]
  /\ quiet = [t \in Threads |-> TRUE]
  /\ issued = {}

\* No thread pool was built.
NoPool ==
  /\ pool = [kind |-> "none", threads |-> 0, res |-> "None", sender |-> FALSE,
             left |-> 0]
  /\ workers = <<>>
  /\ queue = <<>>
  /\ jobs = <<>>

\* No sled store is open and no binary was run.
NoEngines ==
  /\ db = EmptyStore
  /\ sled_up = FALSE
  /\ sled_last = Call("None", "", NoValue, "None", NoValue, 0, NoFault, TRUE)
  /\ started = [by |-> "none", engine |-> "", res |-> "None"]

\* KiwiStore::open(dir) on a directory that is empty or holds a prior log.
Init ==
  /\ \E prior \in PriorLogs :
       InitWith(prior, open(IF prior = <<>> THEN {} ELSE {LogName}, prior, <<>>))
  /\ NoPool
  /\ NoEngines

Orders(w) == IF Compacts(w) THEN IterOrders(w.store) ELSE {<<>>}

Faults(fault) == IF fault = NoFault THEN nfaults ELSE nfaults + 1

SetReturns(key, value, fault, r, c) ==
  /\ Install(r.w)
  /\ compaction' = c
  /\ poisoned' = r.poisoned
  /\ shadow' = IF r.res = "Ok" THEN insert(shadow, key, value) ELSE shadow
  /\ last' = Call("Set", key, value, r.res, NoValue, r.at, fault, TRUE)
  /\ clean' = (clean /\ r.res = "Ok")
  /\ nops' = nops + 1
  /\ nfaults' = Faults(fault)
  /\ issued' = issued \cup {<<key, value>>}
  /\ UNCHANGED <<up, fresh, pc, req, off, quiet>>

GetReturns(key, fault, r) ==
  /\ last' = Call("Get", key, NoValue, r.res, r.value, 0, fault, TRUE)
  /\ clean' = (clean /\ r.res \in {"Some", "None"})
  /\ nfaults' = Faults(fault)
  /\ UNCHANGED <<store, write_log, files, log, tmp, unlinked, up, poisoned,
                 shadow, fresh, nops, compaction, cvars>>

RemoveReturns(key, fault, r) ==
  /\ Install(r.w)
  /\ poisoned' = r.poisoned
  /\ shadow' = IF r.res = "Ok" THEN erase(shadow, key) ELSE shadow
  /\ last' = Call("Remove", key, NoValue, r.res, NoValue, r.at, fault, TRUE)
  /\ clean' = (clean /\ r.res = "Ok")
  /\ nops' = nops + 1
  /\ nfaults' = Faults(fault)
  /\ UNCHANGED <<up, fresh, compaction, cvars>>

OpenReturns(r) ==
  /\ Install(r.w)
  /\ up' = (r.res = "Ok")
  /\ poisoned' = FALSE
  /\ last' = Call("Open", "", NoValue, r.res, NoValue, 0, NoFault, TRUE)
  /\ clean' = (r.res = "Ok")
  /\ fresh' = FALSE
  /\ UNCHANGED <<shadow, nops, nfaults, compaction, cvars>>

\* The process dies inside the write_all of a Set or Remove (result r) after
\* fault.cut bytes: the bytes written stay in the file, the store is gone.
Crashes(key, value, fault, r) ==
  /\ r.res = "Io"
  /\ Install([r.w EXCEPT !.store = EmptyStore, !.write_log = "canonical",
                         !.unlinked = <<>>])
  /\ up' = FALSE
  /\ poisoned' = FALSE
  /\ last' = Call("Crash", key, value, "Crash", NoValue, r.at, fault, TRUE)
  /\ clean' = FALSE
  /\ nops' = nops + 1
  /\ nfaults' = Faults(fault)
  /\ UNCHANGED <<shadow, fresh, compaction, cvars>>

\* store.set(key, value) through a clone of the facade.
DoSet(key, value, order, fault) ==
  SetReturns(key, value, fault,
             facade_set(W, poisoned, key, value, order, fault),
             Compaction(W, poisoned, order, fault))

\* store.get(key)
DoGet(key, fault) ==
  GetReturns(key, fault, facade_get(W, poisoned, key, fault.step = "read"))

\* store.remove(key)
DoRemove(key, fault) ==
  RemoveReturns(key, fault, facade_remove(W, poisoned, key, fault))

\* Every clone is dropped, which closes the append handle, and the
\* directory is opened again.
DoOpen == OpenReturns(open(files, log, tmp))

Sets(limit) ==
  /\ up /\ nops < limit
  /\ \E key \in Keys, value \in Values, order \in Orders(W) :
       DoSet(key, value, order, NoFault)
  /\ UNCHANGED <<pvars, evars>>

Removes(limit) ==
  /\ up /\ nops < limit /\ \E key \in Keys : DoRemove(key, NoFault)
  /\ UNCHANGED <<pvars, evars>>

CallSet == Sets(MaxOps)

CallGet ==
  /\ up /\ \E key \in Keys : DoGet(key, NoFault)
  /\ UNCHANGED <<pvars, evars>>

CallRemove == Removes(MaxOps)

Reopen == up /\ DoOpen /\ UNCHANGED <<pvars, evars>>

Next == CallSet \/ CallGet \/ CallRemove \/ Reopen

\* Sequences of calls without I/O failures.
Spec == Init /\ [][Next]_vars

\* ------------------------------------------------- I/O failures and crashes

\* The numbers of bytes of the line of cmd that an interrupted write leaves:
\* the opening brace alone, and the whole JSON text without its newline.
PartialCuts(cmd) == {1, RecLen(cmd) - 1}

\* A failing write_all wrote nothing or a part of the line.
AppendFaults(cmd) ==
  {Fault("append", 0, cut) : cut \in {0} \cup PartialCuts(cmd)}

\* The numbers of bytes a short write takes: one byte, or all of a record
\* but its newline.
ShortCuts ==
  {1} \cup {RecLen(SetCmd(k, v)) - 1 : k \in Keys, v \in Values}

\* The system calls of compact that can fail: opening the temporary file,
\* reading the value of the i-th key visited, writing its record, the
\* rename, reopening the log; and the write of the i-th record that does
\* not fail but takes only a part of the line.
CompactFaults(w) ==
  IF Compacts(w)
  THEN {Fault(step, 0, 0) : step \in {"tmp_open", "rename", "reopen"}}
       \cup {Fault(step, i, 0) : step \in {"read", "write"},
                                 i \in 1..Cardinality(DOMAIN w.store)}
       \cup {Fault("short", i, cut) : i \in 1..Cardinality(DOMAIN w.store),
                                      cut \in ShortCuts}
  ELSE {}

MayFail == up /\ ~poisoned /\ nfaults < MaxFaults

SetF == Sets(MaxFaultOps)

RemoveF == Removes(MaxFaultOps)

\* A Set during which one system call fails.
FailSet ==
  /\ MayFail /\ nops < MaxFaultOps
  /\ \E key \in Keys, value \in Values, order \in Orders(W) :
       \E fault \in AppendFaults(SetCmd(key, value)) \cup CompactFaults(W) :
         DoSet(key, value, order, fault)
  /\ UNCHANGED <<pvars, evars>>

\* A Get of a key of the keydir during which reading the log fails.
FailGet ==
  /\ MayFail /\ \E key \in DOMAIN store : DoGet(key, Fault("read", 0, 0))
  /\ UNCHANGED <<pvars, evars>>

\* A Remove of a key of the keydir during which the append fails.
FailRemove ==
  /\ MayFail /\ nops < MaxFaultOps
  /\ \E key \in DOMAIN store :
       \E fault \in AppendFaults(RemoveCmd(key)) : DoRemove(key, fault)
  /\ UNCHANGED <<pvars, evars>>

\* The process dies in the middle of the append of a Set.
CrashInSet ==
  /\ MayFail /\ nops < MaxFaultOps
  /\ \E key \in Keys, value \in Values, order \in Orders(W) :
       \E cut \in PartialCuts(SetCmd(key, value)) :
         Crashes(key, value, Fault("append", 0, cut),
                 facade_set(W, poisoned, key, value, order,
                            Fault("append", 0, cut)))
  /\ UNCHANGED <<pvars, evars>>

\* The process dies in the middle of the append of a Remove.
CrashInRemove ==
  /\ MayFail /\ nops < MaxFaultOps
  /\ \E key \in DOMAIN store :
       \E cut \in PartialCuts(RemoveCmd(key)) :
         Crashes(key, NoValue, Fault("append", 0, cut),
                 facade_remove(W, poisoned, key, Fault("append", 0, cut)))
  /\ UNCHANGED <<pvars, evars>>

\* The directory of a store that crashed or failed to open is opened.
Recover == ~up /\ DoOpen /\ UNCHANGED <<pvars, evars>>

NextFault ==
  \/ SetF \/ CallGet \/ RemoveF \/ Reopen
  \/ FailSet \/ FailGet \/ FailRemove
  \/ CrashInSet \/ CrashInRemove \/ Recover

\* Sequences of calls with I/O failures and crashes.
SpecFault == Init /\ [][NextFault]_vars

\* ------------------------------------------------------ concurrent clones

IsWrite(r) == r.op \in {"Set", "Remove"}
Pending(t) == pc[t] # "idle"

\* Thread t returns from its call with result res.
Returns(t, res, out, at) ==
  /\ pc' = [pc EXCEPT ![t] = "idle"]
  /\ last' = Call(req[t].op, req[t].key, req[t].value, res, out, at, NoFault,
                  quiet[t])
  /\ clean' = (clean /\ res \in {"Ok", "Some", "None"})

\* Thread t calls set, get or remove on its clone.
Invoke(t) ==
  /\ up /\ pc[t] = "idle" /\ nops < MaxConcOps
  /\ \E r \in Requests :
       /\ req' = [req EXCEPT ![t] = r]
       /\ quiet' = [u \in Threads |->
                      IF u = t
                      THEN \A x \in Threads \ {t} :
                             ~(Pending(x) /\ IsWrite(req[x]))
                      ELSE quiet[u] /\ ~IsWrite(r)]
       /\ issued' = IF r.op = "Set" THEN issued \cup {<<r.key, r.value>>}
                    ELSE issued
  /\ pc' = [pc EXCEPT ![t] = "waiting"]
  /\ nops' = nops + 1
  /\ UNCHANGED <<store, write_log, files, log, tmp, unlinked, up, poisoned,
                 shadow, last, clean, fresh, nfaults, compaction, off,
                 pvars, evars>>

\* self.inner.read() returns the read guard.
AcquireRead(t) ==
  /\ pc[t] = "waiting" /\ req[t].op = "Get" /\ CanRead(pc) /\ ~poisoned
  /\ pc' = [pc EXCEPT ![t] = "reading"]
  /\ UNCHANGED <<svars, req, off, quiet, issued, pvars, evars>>

\* self.inner.write() returns the write guard.
AcquireWrite(t) ==
  /\ pc[t] = "waiting" /\ IsWrite(req[t]) /\ CanWrite(pc) /\ ~poisoned
  /\ pc' = [pc EXCEPT ![t] = "writing"]
  /\ UNCHANGED <<svars, req, off, quiet, issued, pvars, evars>>

\* read() or write() returns the poison error and expect panics.
AcquirePanics(t) ==
  /\ pc[t] = "waiting" /\ poisoned
  /\ IF IsWrite(req[t]) THEN CanWrite(pc) ELSE CanRead(pc)
  /\ Returns(t, "Panic", NoValue, 0)
  /\ UNCHANGED <<store, write_log, files, log, tmp, unlinked, up, poisoned,
                 shadow, fresh, nops, nfaults, compaction, req, off, quiet,
                 issued, pvars, evars>>

\* get: the keydir lookup.
GetLookup(t) ==
  /\ pc[t] = "reading"
  /\ off' = [off EXCEPT ![t] = get_lookup(W, req[t].key)]
  /\ pc' = [pc EXCEPT ![t] = "read_file"]
  /\ UNCHANGED <<svars, req, quiet, issued, pvars, evars>>

GetReadReturns(t, r) ==
  /\ Returns(t, r.res, r.value, 0)
  /\ UNCHANGED <<store, write_log, files, log, tmp, unlinked, up, poisoned,
                 shadow, fresh, nops, nfaults, compaction, req, off, quiet,
                 issued, pvars, evars>>

\* get: value_from_file at the offset looked up; the read guard is dropped.
GetRead(t) ==
  /\ pc[t] = "read_file"
  /\ GetReadReturns(t, get_read(W, off[t], FALSE))

\* The first half b of a set or remove: the call goes on to its append, or
\* returns what b failed with and drops the write guard.
WriteBegins(t, b, c) ==
  /\ Install(b.w)
  /\ compaction' = c
  /\ IF b.res = "Ok"
     THEN /\ pc' = [pc EXCEPT ![t] = "appending"]
          /\ UNCHANGED <<poisoned, last, clean>>
     ELSE /\ Returns(t, b.res, NoValue, 0)
          /\ poisoned' = under_write(b).poisoned
  /\ UNCHANGED <<up, shadow, fresh, nops, nfaults, req, off, quiet, issued,
                 pvars, evars>>

\* set up to the keydir insert (compaction included); remove up to the
\* keydir removal.
WriteBegin(t) ==
  /\ pc[t] = "writing"
  /\ \E order \in Orders(W) :
       WriteBegins(t, IF req[t].op = "Set"
                      THEN set_begin(W, req[t].key, order, NoFault)
                      ELSE remove_begin(W, req[t].key),
                   IF req[t].op = "Set"
                   THEN Compaction(W, FALSE, order, NoFault)
                   ELSE compaction)

WriteEnds(t, r) ==
  /\ Install(r.w)
  /\ Returns(t, r.res, NoValue, r.at)
  /\ shadow' = IF req[t].op = "Set"
               THEN insert(shadow, req[t].key, req[t].value)
               ELSE erase(shadow, req[t].key)
  /\ UNCHANGED <<up, poisoned, fresh, nops, nfaults, compaction, req, off,
                 quiet, issued, pvars, evars>>

\* set and remove: the append of the record; the write guard is dropped.
WriteEnd(t) ==
  /\ pc[t] = "appending"
  /\ WriteEnds(t, append(W, IF req[t].op = "Set"
                            THEN SetCmd(req[t].key, req[t].value)
                            ELSE RemoveCmd(req[t].key), NoFault))

NextConc ==
  \E t \in Threads :
    \/ Invoke(t)
    \/ AcquireRead(t) \/ AcquireWrite(t) \/ AcquirePanics(t)
    \/ GetLookup(t) \/ GetRead(t)
    \/ WriteBegin(t) \/ WriteEnd(t)

\* Threads calling the store concurrently through clones, without I/O
\* failures.
SpecConc == Init /\ [][NextConc]_vars

\* Thread t leaves the first half of its set or remove.  WriteBegin(t) is
\* the one step that changes pc[t] from "writing", and it is enabled
\* whenever pc[t] = "writing".
BeginsWrite(t) ==
  /\ pc[t] = "writing"
  /\ pc' \in {[pc EXCEPT ![t] = "appending"], [pc EXCEPT ![t] = "idle"]}

\* A thread that holds a guard goes on, and the lock is fair: a thread that
\* can be granted the lock again and again is granted it.
FairConc ==
  \A t \in Threads :
    /\ SF_vars(AcquireRead(t) \/ AcquireWrite(t) \/ AcquirePanics(t))
    /\ WF_vars(GetLookup(t) \/ GetRead(t) \/ WriteEnd(t))
    /\ WF_pc(BeginsWrite(t))

\* The calls of the fair runs: a Set that compacts the prior log, a Remove
\* and a Get of the key the prior log holds.
FairRequests ==
  {Request("Set", "b", Big), Request("Remove", "a", NoValue),
   Request("Get", "a", NoValue)}

InvokeFair(t) == Invoke(t) /\ req'[t] \in FairRequests

NextConcFair ==
  \E t \in Threads :
    \/ InvokeFair(t)
    \/ AcquireRead(t) \/ AcquireWrite(t) \/ AcquirePanics(t)
    \/ GetLookup(t) \/ GetRead(t)
    \/ WriteBegin(t) \/ WriteEnd(t)

\* The threads of SpecConc going on under a fair lock.
SpecConcFair == Init /\ [][NextConcFair]_vars /\ FairConc

\* ------------------------------------------------------- the sled adapter

\* SledStoreInner::set.  d is the content of the sled database.
sled_set(d, key, value) == [res |-> "Ok", db |-> insert(d, key, value)]

\* SledStoreInner::get
sled_get(d, key) ==
  IF key \in DOMAIN d THEN Result("Some", d[key]) ELSE Result("None", NoValue)

\* SledStoreInner::remove: Ok whatever Db::remove found.
sled_remove(d, key) == [res |-> "Ok", db |-> erase(d, key)]

\* A call on the open SledStore returns.
SledReturns(op, key, value, res, out, d) ==
  /\ db' = d
  /\ sled_last' = Call(op, key, value, res, out, 0, NoFault, TRUE)
  /\ UNCHANGED <<sled_up, started>>

SledSet(key, value) ==
  SledReturns("Set", key, value, sled_set(db, key, value).res, NoValue,
              sled_set(db, key, value).db)

SledGet(key) ==
  SledReturns("Get", key, NoValue, sled_get(db, key).res,
              sled_get(db, key).value, db)

SledRemove(key) ==
  SledReturns("Remove", key, NoValue, sled_remove(db, key).res, NoValue,
              sled_remove(db, key).db)

\* A KiwiStore and a SledStore, each open on a directory of its own that
\* holds the same bindings.
InitEngines ==
  /\ \E prior \in PriorLogs :
       /\ InitWith(prior,
                   open(IF prior = <<>> THEN {} ELSE {LogName}, prior, <<>>))
       /\ db = Replay(prior, EmptyStore)
  /\ sled_up = TRUE
  /\ sled_last = Call("Open", "", NoValue, "Ok", NoValue, 0, NoFault, TRUE)
  /\ started = [by |-> "none", engine |-> "", res |-> "None"]
  /\ NoPool

\* The same call is made on both engines.
BothSet ==
  /\ up /\ sled_up /\ nops < MaxOps
  /\ \E key \in Keys, value \in Values, order \in Orders(W) :
       DoSet(key, value, order, NoFault) /\ SledSet(key, value)
  /\ UNCHANGED pvars

BothGet ==
  /\ up /\ sled_up
  /\ \E key \in Keys : DoGet(key, NoFault) /\ SledGet(key)
  /\ UNCHANGED pvars

BothRemove ==
  /\ up /\ sled_up /\ nops < MaxOps
  /\ \E key \in Keys : DoRemove(key, NoFault) /\ SledRemove(key)
  /\ UNCHANGED pvars

NextEngines == BothSet \/ BothGet \/ BothRemove

\* The two engines driven by the same sequence of calls.
SpecEngines == InitEngines /\ [][NextEngines]_vars

\* ------------------------------------------------------------ thread pools

PoolKinds == {"naive", "shared", "rayon"}

Worker(state, job) == [state |-> state, job |-> job]

\* A job passed to spawn: whether it panics when run, where it is, how many
\* times it was started, which worker started it (0: a thread of its own),
\* and how the spawn call that took it returned.
Job(panics, state, runs, by, spawn) ==
  [panics |-> panics, state |-> state, runs |-> runs, by |-> by,
   spawn |-> spawn]

\* NaiveThreadPool::new
new_naive(threads) ==
  [pool |-> [kind |-> "naive", threads |-> threads, res |-> "Ok",
             sender |-> FALSE, left |-> 0],
   workers |-> <<>>]

\* SharedQueueThreadPool::new.  fail_at = i > 0: the operating system
\* refuses the i-th thread, on which thread::spawn panics; the unwinding
\* drops the sender, and the workers started before stay in their loops
\* until they find the channel disconnected.
new_shared(threads, fail_at) ==
  [pool |-> [kind |-> "shared", threads |-> threads,
             res |-> IF fail_at = 0 THEN "Ok" ELSE "Panic",
             sender |-> (fail_at = 0), left |-> 0],
   workers |-> [i \in 1..(IF fail_at = 0 THEN threads ELSE fail_at - 1) |->
                  Worker("idle", 0)]]

\* RayonThreadPool::new: ThreadPoolBuilder::new().num_threads(threads)
\* .build()?.  With threads = 0 rayon starts its default number of threads,
\* cpus; a build that fails returns Error::ThreadPoolBuild and leaves no
\* thread.
new_rayon(threads, cpus, fails) ==
  [pool |-> [kind |-> "rayon", threads |-> threads,
             res |-> IF fails THEN "ThreadPoolBuild" ELSE "Ok",
             sender |-> ~fails, left |-> 0],
   workers |-> IF fails THEN <<>>
               ELSE [i \in 1..(IF threads = 0 THEN cpus ELSE threads) |->
                       Worker("idle", 0)]]

\* The receivers of the channel are the clones the workers hold.
Receivers(ws) == {w \in DOMAIN ws : ws[w].state # "exited"}

\* self.queue.send(Box::new(job)).unwrap(): the send fails, and unwrap
\* panics, when no receiver is left.
send(ws, q, id) ==
  IF Receivers(ws) = {} THEN [res |-> "Panic", queue |-> q]
  ELSE [res |-> "Ok", queue |-> Append(q, id)]

\* A worker that runs the job without catch_unwind dies with it.
after_panic_uncaught == "exited"

\* What a worker does after running a job that panicked: catch_unwind
\* returns the panic as an Err, which is logged.
after_panic == "idle"

\* The outcome of a job for the thread that ran it.
after_job(panics) == IF panics THEN after_panic ELSE "idle"

InitPool ==
  /\ NoStore
  /\ NoEngines
  /\ \E threads \in 0..MaxThreads :
       \/ \E fail_at \in 0..threads :
            /\ pool = new_shared(threads, fail_at).pool
            /\ workers = new_shared(threads, fail_at).workers
       \/ /\ pool = new_naive(threads).pool
          /\ workers = new_naive(threads).workers
       \/ \E cpus \in 1..MaxThreads, fails \in BOOLEAN :
            /\ pool = new_rayon(threads, cpus, fails).pool
            /\ workers = new_rayon(threads, cpus, fails).workers
  /\ queue = <<>>
  /\ jobs = <<>>

Spawned(panics, r) ==
  /\ queue' = r.queue
  /\ jobs' = Append(jobs, Job(panics, IF r.res = "Ok" THEN "queued"
                                      ELSE "dropped", 0, 0, r.res))

\* SharedQueueThreadPool::spawn
SpawnShared ==
  /\ pool.kind = "shared" /\ pool.res = "Ok" /\ pool.sender
  /\ Len(jobs) < MaxJobs
  /\ \E panics \in BOOLEAN : Spawned(panics, send(workers, queue, Len(jobs) + 1))
  /\ UNCHANGED <<pool, workers, svars, cvars, evars>>

\* thread::spawn(job): the job runs in a thread of its own; when the
\* operating system refuses the thread, thread::spawn panics and the job is
\* not run.
thread_spawn(panics, refused) ==
  IF refused THEN Job(panics, "dropped", 0, 0, "Panic")
  ELSE Job(panics, "running", 1, 0, "Ok")

\* NaiveThreadPool::spawn: thread::spawn(job)
SpawnNaive ==
  /\ pool.kind = "naive" /\ Len(jobs) < MaxJobs
  /\ \E panics, refused \in BOOLEAN :
       jobs' = Append(jobs, thread_spawn(panics, refused))
  /\ UNCHANGED <<pool, workers, queue, svars, cvars, evars>>

\* RayonThreadPool::spawn: self.pool.spawn(job) hands the job to the pool's
\* threads.
SpawnRayon ==
  /\ pool.kind = "rayon" /\ pool.res = "Ok" /\ Len(jobs) < MaxJobs
  /\ \E panics \in BOOLEAN :
       Spawned(panics, [res |-> "Ok", queue |-> Append(queue, Len(jobs) + 1)])
  /\ UNCHANGED <<pool, workers, svars, cvars, evars>>

\* The thread that thread::spawn(job) started runs the job to its end.
NaiveFinish(j) ==
  /\ pool.kind = "naive" /\ j \in DOMAIN jobs /\ jobs[j].state = "running"
  /\ jobs' = [jobs EXCEPT ![j].state =
                             IF jobs[j].panics THEN "panicked" ELSE "done"]
  /\ UNCHANGED <<pool, workers, queue, svars, cvars, evars>>

\* for job in receiver.iter(): worker w receives the next job.
Take(w) ==
  /\ w \in DOMAIN workers /\ workers[w].state = "idle" /\ queue # <<>>
  /\ workers' = [workers EXCEPT ![w] = Worker("running", Head(queue))]
  /\ queue' = Tail(queue)
  /\ jobs' = [jobs EXCEPT ![Head(queue)].state = "running",
                          ![Head(queue)].runs = @ + 1,
                          ![Head(queue)].by = w]
  /\ UNCHANGED <<pool, svars, cvars, evars>>

\* panic::catch_unwind(AssertUnwindSafe(job)): the job of worker w ends.
\* In a RayonThreadPool, built without a panic handler, a job that panics
\* aborts the process: every thread is gone with it.
Finish(w) ==
  /\ w \in DOMAIN workers /\ workers[w].state = "running"
  /\ IF pool.kind = "rayon" /\ jobs[workers[w].job].panics
     THEN /\ workers' = [i \in DOMAIN workers |-> Worker("exited", 0)]
          /\ pool' = [pool EXCEPT !.res = "Abort", !.sender = FALSE]
     ELSE /\ workers' = [workers EXCEPT
                           ![w] = Worker(after_job(jobs[workers[w].job].panics),
                                         0)]
          /\ UNCHANGED pool
  /\ jobs' = [jobs EXCEPT ![workers[w].job].state =
                             IF jobs[workers[w].job].panics THEN "panicked"
                             ELSE "done"]
  /\ UNCHANGED <<queue, svars, cvars, evars>>

\* A loop that ends as soon as the sender is gone, whatever the channel
\* holds.
Exit_OnDisconnect(w) ==
  /\ w \in DOMAIN workers /\ workers[w].state = "idle"
  /\ ~pool.sender
  /\ workers' = [workers EXCEPT ![w] = Worker("exited", 0)]
  /\ UNCHANGED <<pool, queue, jobs, svars, cvars, evars>>

\* receiver.iter() ends: the channel is empty and its sender is gone.
Exit(w) ==
  /\ w \in DOMAIN workers /\ workers[w].state = "idle"
  /\ queue = <<>> /\ ~pool.sender
  /\ workers' = [workers EXCEPT ![w] = Worker("exited", 0)]
  /\ UNCHANGED <<pool, queue, jobs, svars, cvars, evars>>

NextPool ==
  \/ SpawnShared \/ SpawnNaive \/ SpawnRayon
  \/ \E j \in 1..MaxJobs : NaiveFinish(j)
  \/ \E w \in 1..MaxThreads : Take(w) \/ Finish(w) \/ Exit(w)

\* A thread pool, the jobs spawned into it and its workers.
SpecPool == InitPool /\ [][NextPool]_vars

\* The SharedQueueThreadPool is dropped: its field queue, the one sender of
\* the channel, is dropped with it.  left records how many jobs the channel
\* held then.
Drop ==
  /\ pool.kind = "shared" /\ pool.res = "Ok" /\ pool.sender
  /\ pool' = [pool EXCEPT !.sender = FALSE, !.left = Len(queue)]
  /\ UNCHANGED <<workers, queue, jobs, svars, cvars, evars>>

NextPoolDrop ==
  \/ SpawnShared \/ SpawnNaive \/ SpawnRayon \/ Drop
  \/ \E j \in 1..MaxJobs : NaiveFinish(j)
  \/ \E w \in 1..MaxThreads : Take(w) \/ Finish(w) \/ Exit(w)

\* The worker threads are scheduled: a worker that can receive a job, end
\* its job or leave its loop does so.
FairPool ==
  \A w \in 1..MaxThreads : WF_vars(Take(w) \/ Finish(w) \/ Exit(w))

\* A thread pool that may be dropped, with its worker threads going on.
SpecPoolDrop == InitPool /\ [][NextPoolDrop]_vars /\ FairPool

\* ------------------------------------------------- the server and the CLI

\* Path::new(DB_PATH).join("db"): the file of a sled database.
SledName == "db"

\* What sled::open leaves in the directory.
SledFiles == {"conf", SledName}

\* The values of --engine.
Engines == {"kvs", "sled", "rocks"}

Started(by, engine, res) == [by |-> by, engine |-> engine, res |-> res]

\* The kvs arm of kiwi-server's run that goes on to KiwiStore::open
\* without looking for the sled database.
server_run_unchecked(engine, fs) ==
  IF engine = "kvs" THEN [res |-> "Ok", opens |-> "kvs"]
  ELSE IF engine = "sled"
  THEN IF LogName \in fs THEN [res |-> "Other", opens |-> "none"]
       ELSE [res |-> "Ok", opens |-> "sled"]
  ELSE [res |-> "Other", opens |-> "none"]

\* run(address, engine) of kiwi-server up to the opening of the engine, in a
\* database directory holding the files fs: the engine it opens, or the
\* error it returns.
server_run(engine, fs) ==
  IF engine = "kvs"
  THEN IF SledName \in fs THEN [res |-> "Other", opens |-> "none"]
       ELSE [res |-> "Ok", opens |-> "kvs"]
  ELSE IF engine = "sled"
  THEN IF LogName \in fs THEN [res |-> "Other", opens |-> "none"]
       ELSE [res |-> "Ok", opens |-> "sled"]
  ELSE [res |-> "Other", opens |-> "none"]

\* No process has an engine open on the directory.
Stopped == ~up /\ ~sled_up

\* A database directory that is empty or holds a prior log, and no process.
InitServer ==
  /\ \E prior \in PriorLogs :
       /\ InitWith(prior, [res |-> "None",
                           w |-> World(EmptyStore, "canonical",
                                       IF prior = <<>> THEN {} ELSE {LogName},
                                       prior, <<>>, <<>>)])
       /\ db = EmptyStore
  /\ sled_up = FALSE
  /\ sled_last = Call("None", "", NoValue, "None", NoValue, 0, NoFault, TRUE)
  /\ started = Started("none", "", "None")
  /\ NoPool

\* kiwi-server --engine kvs: KiwiStore::open(DB_PATH)
StartKvs ==
  /\ Stopped
  /\ \E engine \in Engines :
       /\ server_run(engine, files).opens = "kvs"
       /\ started' = Started("server", engine, open(files, log, tmp).res)
  /\ DoOpen
  /\ UNCHANGED <<db, sled_up, sled_last, pvars>>

\* kiwi-server --engine sled: SledStore::open(DB_PATH)
StartSled ==
  /\ Stopped
  /\ \E engine \in Engines :
       /\ server_run(engine, files).opens = "sled"
       /\ started' = Started("server", engine, "Ok")
  /\ files' = files \cup SledFiles
  /\ sled_up' = TRUE
  /\ sled_last' = Call("Open", "", NoValue, "Ok", NoValue, 0, NoFault, TRUE)
  /\ UNCHANGED <<store, write_log, log, tmp, unlinked, up, poisoned, shadow,
                 last, clean, fresh, nops, nfaults, compaction, cvars, pvars,
                 db>>

\* kiwi-server returns an error without opening an engine.
StartRefused ==
  /\ Stopped
  /\ \E engine \in Engines :
       /\ server_run(engine, files).opens = "none"
       /\ started' = Started("server", engine, server_run(engine, files).res)
  /\ UNCHANGED <<svars, cvars, pvars, db, sled_up, sled_last>>

\* The process ends: the server is killed, the CLI has run its subcommand.
Stop ==
  /\ up \/ sled_up
  /\ started.by = "cli" => started.res \in {"Done", "Panic"}
  /\ Install([W EXCEPT !.store = EmptyStore, !.write_log = "canonical",
                       !.unlinked = <<>>])
  /\ up' = FALSE
  /\ poisoned' = FALSE
  /\ sled_up' = FALSE
  /\ UNCHANGED <<shadow, last, clean, fresh, nops, nfaults, compaction, cvars,
                 pvars, db, sled_last, started>>

\* The requests the server passes to the engine it opened.
ServerSet == started.by = "server" /\ CallSet
ServerGet == started.by = "server" /\ CallGet
ServerRemove == started.by = "server" /\ CallRemove

\* What a handler of the service comes to: Ok(Response::new(reply)) with
\* the reply's key_found and value, Err(Status), or a panic.
Reply(kind, key_found, value) ==
  [kind |-> kind, key_found |-> key_found, value |-> value]

\* Kvs::get on the result r of engine.get: unwrap panics on an Err.
server_get(r) ==
  IF r.res = "Some" THEN Reply("Ok", TRUE, r.out)
  ELSE IF r.res = "None" THEN Reply("Ok", FALSE, NoValue)
  ELSE Reply("Panic", FALSE, NoValue)

\* Kvs::set on the result r of engine.set: unwrap panics on an Err.
server_set(r) ==
  IF r.res = "Ok" THEN Reply("Ok", FALSE, NoValue)
  ELSE Reply("Panic", FALSE, NoValue)

\* Kvs::remove on the result r of engine.remove: every Err is answered
\* key_found: false.
server_remove(r) ==
  IF r.res = "Ok" THEN Reply("Ok", TRUE, NoValue)
  ELSE IF r.res = "Panic" THEN Reply("Panic", FALSE, NoValue)
  ELSE Reply("Ok", FALSE, NoValue)

\* What the handler answered to the request the engine served last.
Served ==
  IF last.op = "Get" THEN server_get(last)
  ELSE IF last.op = "Set" THEN server_set(last)
  ELSE server_remove(last)

SledCallSet ==
  /\ sled_up /\ \E key \in Keys, value \in Values : SledSet(key, value)
  /\ UNCHANGED <<svars, cvars, pvars>>

SledCallGet ==
  /\ sled_up /\ \E key \in Keys : SledGet(key)
  /\ UNCHANGED <<svars, cvars, pvars>>

SledCallRemove ==
  /\ sled_up /\ \E key \in Keys : SledRemove(key)
  /\ UNCHANGED <<svars, cvars, pvars>>

NextServer ==
  \/ StartKvs \/ StartSled \/ StartRefused \/ Stop
  \/ ServerSet \/ ServerGet \/ ServerRemove
  \/ SledCallSet \/ SledCallGet \/ SledCallRemove

\* Start-ups of kiwi-server on one database directory, with the requests
\* served in between.
SpecServer == InitServer /\ [][NextServer]_vars

\* kiwi-cli: run opens the store in the directory, whatever it holds.
StartCli ==
  /\ Stopped
  /\ started' = Started("cli", "kvs", open(files, log, tmp).res)
  /\ DoOpen
  /\ UNCHANGED <<db, sled_up, sled_last, pvars>>

\* The subcommands of kiwi-cli and the ids of the arguments each declares:
\* arg!(<KEY>) and arg!(<VALUE>) have the ids "KEY" and "VALUE".
Subcommands == {"set", "get", "rm"}
CliArgs(sub) ==
  IF sub = "set" THEN {"KEY", "VALUE", "addr"} ELSE {"KEY", "addr"}

\* matches.value_of(id) finds a value only for an id the subcommand
\* declares; for any other id the lookup panics or gives None, on which
\* unwrap panics.
value_of(args, id) == id \in args

\* store.set, store.get or store.remove of the subcommand's arm.
CliCall(sub) ==
  /\ nops < MaxOps
  /\ \/ /\ sub = "set"
        /\ \E key \in Keys, value \in Values, order \in Orders(W) :
             DoSet(key, value, order, NoFault)
     \/ sub = "get" /\ \E key \in Keys : DoGet(key, NoFault) /\ nops' = nops
     \/ sub = "rm" /\ \E key \in Keys : DoRemove(key, NoFault)
  /\ started' = [started EXCEPT !.res = "Done"]

\* kiwi-cli: the arm of the subcommand set, get or rm.  Each arm looks up
\* value_of("key") first and unwraps it: the process panics before it calls
\* the store.
CliCommand ==
  /\ up /\ started.by = "cli" /\ started.res = "Ok"
  /\ \E sub \in Subcommands :
       IF value_of(CliArgs(sub), "key")
       THEN CliCall(sub)
       ELSE /\ started' = [started EXCEPT !.res = "Panic"]
            /\ UNCHANGED <<svars, cvars>>
  /\ UNCHANGED <<db, sled_up, sled_last, pvars>>

NextCli == NextServer \/ StartCli \/ CliCommand

\* Runs of kiwi-server and of kiwi-cli on one directory.
SpecCli == InitServer /\ [][NextCli]_vars

\* --------------------------------------------------------------- recovery

Cmds ==
  {SetCmd(k, v) : k \in Keys, v \in Values} \cup {RemoveCmd(k) : k \in Keys}

\* What a file can hold: the lines of commands, the bytes that writes that
\* were cut short left of them, and a line of bytes that are not UTF-8.
LogChunks ==
  {Line(c) : c \in Cmds \cup {Binary}}
  \cup UNION {{Chunk(c, n) : n \in PartialCuts(c)} : c \in Cmds}

RECURSIVE Logs(_)
Logs(n) ==
  IF n = 0 THEN {<<>>}
  ELSE Logs(n - 1) \cup
       {Append(f, ch) : f \in {g \in Logs(n - 1) : Len(g) = n - 1},
                        ch \in LogChunks}

\* A directory whose kvs.db holds any of the logs, and no store.
InitOpen ==
  /\ \E f \in Logs(MaxLogLen) :
       InitWith(f, [res |-> "None",
                    w |-> World(EmptyStore, "canonical", {LogName}, f, <<>>,
                                <<>>)])
  /\ NoPool
  /\ NoEngines

\* KiwiStore::open(dir)
OpenDir == ~up /\ last.op # "Open" /\ DoOpen /\ UNCHANGED <<pvars, evars>>

NextOpen == OpenDir

\* KiwiStore::open applied to a directory holding any log.
SpecOpen == InitOpen /\ [][NextOpen]_vars

\* ----------------------------------------------------------------- claims

\* What Get(key) returns when the store holds what shadow says.
Expected(key, r) ==
  IF key \in DOMAIN shadow THEN r.res = "Some" /\ r.out = shadow[key]
  ELSE r.res = "None"

\* C1 (P1): on a store opened on an empty directory, after any sequence of
\* Set and Remove calls, Get(k) returns Some(v) for the value v of the last
\* Set(k, v) that no Remove(k) followed, and None otherwise, also when a Set
\* of the sequence ran compaction.
C1_GetReturnsLastSet ==
  (fresh /\ last.op = "Get") => Expected(last.key, last)

\* The line at byte offset o of kvs.db is a complete Set record for key k
\* carrying value v.
SetRecordAt(o, k, v) ==
  /\ read_line(log, o).chunks = <<Line(SetCmd(k, v))>>
  /\ read_line(log, o).skip = 0

\* C2 (I1): in every state reached by completed calls, every keydir entry
\* (k, off) has at offset off of the log a complete Set record whose key is
\* k and whose value is the value of the most recent Set(k, .).
C2_KeydirPointsAtLiveRecord ==
  up => \A k \in DOMAIN store :
          k \in DOMAIN shadow /\ SetRecordAt(store[k], k, shadow[k])

\* C3: after a successful Set(k, v), keydir[k] is the byte offset at which
\* this Set appended its record, which is the end of the log after the
\* compaction when the Set ran one.
C3_KeydirHoldsAppendOffset ==
  (last.op = "Set" /\ last.res = "Ok") => store[last.key] = last.at

\* C4: under any interleaving of Set, Get and Remove called by several
\* threads through clones of one store, every Get(k) returns None or a value
\* that was the argument of a Set(k, .) called before the Get returned; it
\* never returns an error, panics, or returns a value set for another key.
C4_GetNeverCorrupted ==
  last.op = "Get" =>
    \/ last.res = "None"
    \/ last.res = "Some" /\ <<last.key, last.out>> \in issued

\* C5 (P4, I3): the calls of concurrent clones are linearizable; in
\* particular a Get that no Set or Remove overlaps observes every Set and
\* Remove that returned successfully before it started.
C5_GetObservesCompletedWrites ==
  (last.op = "Get" /\ last.quiet) => Expected(last.key, last)

\* C6 (P2): dropping a store whose calls all succeeded and reopening its
\* directory succeeds and yields the keydir the store held in memory: the
\* same keys at the same offsets.
C6_ReopenYieldsSameKeydir ==
  [][(clean /\ last'.op = "Open") => (last'.res = "Ok" /\ store' = store)]_vars

\* The file ends in an incomplete record and every record before it is
\* complete.
Torn(f) ==
  /\ f # <<>>
  /\ ~Complete(f[Len(f)])
  /\ \A i \in 1..(Len(f) - 1) : Complete(f[i])

\* C7 (I4): open on a log that ends in an incomplete record succeeds,
\* ignores the trailing bytes and rebuilds the keydir from the complete
\* records before them.
C7_OpenIgnoresTornTail ==
  (last.op = "Open" /\ Torn(log)) =>
    /\ last.res = "Ok"
    /\ store = rehydrate(SubSeq(log, 1, Len(log) - 1), 0, EmptyStore).store

\* C8: a Remove(k) during which no system call fails returns NoKey exactly
\* when k has no live binding, and then leaves the keydir and the log as
\* they were; otherwise it returns Ok.
C8_RemoveNoKeyIffAbsent ==
  [][(last'.op = "Remove" /\ last'.fault = "none") =>
       IF last'.key \in DOMAIN shadow THEN last'.res = "Ok"
       ELSE last'.res = "NoKey" /\ store' = store /\ log' = log]_vars

\* C9: a Set or Remove whose append fails reports the error and leaves the
\* keydir exactly as it was before the call.
C9_FailedAppendKeepsKeydir ==
  [][(last'.op \in {"Set", "Remove"} /\ last'.fault = "append") =>
       (last'.res = "Io" /\ store' = store)]_vars

\* C10: a compaction that fails at reading a value, writing the temporary
\* file, the rename or reopening the log leaves the canonical log intact and
\* the keydir with the offsets it had, so that every Get returns what it
\* returned before.
C10_FailedCompactionKeepsState ==
  [][(last'.op = "Set"
      /\ last'.fault \in {"read", "write", "rename", "reopen"}) =>
       /\ log' = log
       /\ store' = store
       /\ \A k \in Keys :
            get(World(store', write_log', files', log', tmp', unlinked'),
                k, FALSE) = get(W, k, FALSE)]_vars

\* The total encoded size of one Set record per key of S, carrying the
\* value the key resolved to in pre.
RECURSIVE RecordsLen(_, _)
RecordsLen(S, pre) ==
  IF S = {} THEN 0
  ELSE LET k == CHOOSE x \in S : TRUE
       IN RecLen(SetCmd(k, pre[k].value)) + RecordsLen(S \ {k}, pre)

\* The keydir kd and the log f are what a compaction should leave when the
\* keys resolved to pre before it.
CompactedLog(kd, f, pre) ==
  /\ \A i \in DOMAIN f :
       Complete(f[i]) /\ f[i].cmd.op = "Set" /\ f[i].cmd.key \in DOMAIN kd
  /\ \A k \in DOMAIN kd : Cardinality({i \in DOMAIN f : f[i].cmd.key = k}) = 1
  /\ FileLen(f) = RecordsLen(DOMAIN kd, pre)
  /\ \A k \in DOMAIN kd :
       get(World(kd, "canonical", {LogName}, f, <<>>, <<>>), k, FALSE) = pre[k]

\* C11 (P3): right after a successful compact the log holds exactly one Set
\* record per key of the keydir and no Remove record, its length is the sum
\* of the encoded sizes of those records, and every key resolves through
\* the keydir to the value it had before.
C11_CompactedLogHoldsLiveRecords ==
  compaction.res = "Ok" =>
    CompactedLog(compaction.store, compaction.log, compaction.pre)

\* C12 (I5): no Get is at its keydir lookup or at its file read while a Set
\* or Remove, with the compaction it may run, is between its start and its
\* end: a Get sees neither a keydir entry whose record is still to be
\* appended nor a log that compaction is replacing.
C12_GetsExcludeWrites ==
  \A t, u \in Threads :
    ~(pc[t] \in {"reading", "read_file"} /\ pc[u] \in {"writing", "appending"})

\* A Get waits for the lock while a Set that ran compaction has updated the
\* keydir and has yet to append its record.
C12_GetWaitsForCompactingSet ==
  \E t, u \in Threads :
    /\ pc[t] = "waiting" /\ req[t].op = "Get"
    /\ pc[u] = "appending" /\ req[u].op = "Set"
    /\ compaction.res = "Ok"
    /\ req[u].key \in DOMAIN store

\* C13: for every sequence of set, get and remove calls the sled-backed
\* adapter returns what the log-backed engine returns; in particular remove
\* of a key without binding returns NoKey on both.
C13_EnginesAgree ==
  last.op \in {"Set", "Get", "Remove"} =>
    /\ sled_last.op = last.op /\ sled_last.key = last.key
    /\ sled_last.res = last.res /\ sled_last.out = last.out

\* The workers of the pool that have not left their loop.
Live == Cardinality(Receivers(workers))

\* C14: in a SharedQueueThreadPool built by new(n), whatever jobs panicked,
\* n worker threads are alive, a job waiting in the queue has a live worker
\* to run it, and no job was lost.
C14_PanicsLeaveWorkersAlive ==
  (pool.kind = "shared" /\ pool.res = "Ok") =>
    /\ Live = pool.threads
    /\ queue # <<>> => Live > 0
    /\ (\E j \in DOMAIN jobs : jobs[j].state = "panicked") =>
         \A j \in DOMAIN jobs : jobs[j].state # "dropped"

\* A job panicked in a worker, and a job spawned after that has run to its
\* end in the same worker.
C14_JobRunsAfterPanic ==
  \E i, j \in DOMAIN jobs :
    /\ i < j /\ pool.kind = "shared"
    /\ jobs[i].state = "panicked" /\ jobs[j].state = "done"
    /\ jobs[i].by = jobs[j].by

\* C15: every job passed to spawn is executed exactly once: no job is
\* started twice and none is dropped.
C15_JobsRunExactlyOnce ==
  \A j \in DOMAIN jobs :
    /\ jobs[j].runs <= 1
    /\ jobs[j].state # "dropped"
    /\ jobs[j].state \in {"running", "done", "panicked"} => jobs[j].runs = 1

\* C16: when a worker thread fails to spawn, new returns an error, and the
\* workers spawned before it terminate: none of them runs or can receive a
\* job.
C16_FailedNewReturnsError ==
  (pool.kind = "shared" /\ pool.res # "Ok") =>
    /\ pool.res = "Err"
    /\ ~pool.sender
    /\ \A w \in DOMAIN workers : workers[w].state \in {"idle", "exited"}

\* C17: on every pool that new returned, for every thread count new
\* accepts, spawn enqueues the job and returns without failing or panicking.
C17_SpawnAlwaysSucceeds ==
  \A j \in DOMAIN jobs :
    jobs[j].spawn = "Ok" /\ jobs[j].state # "dropped"

\* The command that decodes at the offset the keydir holds for key k.
RecordOf(k) == from_str(read_line(log, store[k]))

\* C18: a Get(k) of a key of the keydir that finds at the recorded offset a
\* record that is not a Set for k (a Remove, or a Set for another key)
\* panics; it never returns the value of a record whose key differs from k.
C18_GetChecksRecordKey ==
  (/\ last.op = "Get" /\ last.fault = "none"
   /\ last.key \in DOMAIN store
   /\ RecordOf(last.key).ok
   /\ \/ RecordOf(last.key).cmd.op = "Remove"
      \/ RecordOf(last.key).cmd.key # last.key) => last.res = "Panic"

\* C19: the log-backed engine refuses to open a directory that holds the
\* sled database: whichever binary opens it, the server or the CLI, open
\* fails and kvs.db is neither created nor modified.
C19_KiwiRefusesSledDirectory ==
  [][(SledName \in files /\ ~up) =>
       /\ ~up'
       /\ (LogName \in files') = (LogName \in files)
       /\ log' = log]_vars

\* C20: over any sequence of server start-ups with any engine names, an
\* engine is never opened in a directory that holds the other engine's
\* file, the directory never holds both kvs.db and db, and an unknown
\* engine name is refused without opening anything.
C20_EnginesExcludeEachOther ==
  /\ ~({LogName, SledName} \subseteq files)
  /\ up => SledName \notin files
  /\ sled_up => LogName \notin files
  /\ (started.by = "server" /\ started.engine \notin {"kvs", "sled"}) =>
       started.res = "Other" /\ Stopped

\* The server was started with the log-backed engine on a directory that
\* the sled engine had filled, and refused.
C20_KvsRefusedOnSledDirectory ==
  /\ started = Started("server", "kvs", "Other")
  /\ SledName \in files
  /\ db # EmptyStore
  /\ Stopped

\* The threads that hold a guard of the lock and are inside the store core.
InCore == {t \in Threads : pc[t] \in {"reading", "read_file", "writing", "appending"}}
Writing == {t \in Threads : pc[t] \in {"writing", "appending"}}

\* C21: the lock is held exclusively for the whole of every Set, Get and
\* Remove: at most one call, from any clone, is inside the store core, so
\* two Gets are never inside it together.
C21_OneCallInCore == Cardinality(InCore) <= 1

\* C21 as amended: a Set or Remove holds the lock exclusively from its start
\* to the end of its append, and a Get holds it shared: while a Set or
\* Remove is inside the core no other call is; Gets may be inside together.
C21_WritesAreExclusive == Writing # {} => Cardinality(InCore) = 1

\* Two Gets are inside the core together: one at its keydir lookup or file
\* read, the other at its file read.
C21_TwoGetsInCore ==
  \E t, u \in Threads :
    /\ t # u
    /\ req[t].op = "Get" /\ req[u].op = "Get"
    /\ pc[t] = "read_file" /\ pc[u] \in {"reading", "read_file"}

\* A call of op entered the store core in this step.
Ran(op) == ~poisoned /\ last'.op = op /\ (op = "Get" \/ nops' = nops + 1)

\* C22: Set runs Compact exactly when the end-of-log offset it queried at
\* its start is greater than 84,000 bytes, and runs it before it appends its
\* record: the record follows the compacted log.  Get and Remove never run
\* compaction: Get leaves the files as they are, Remove at most appends its
\* record.
C22_SetCompactsOverThreshold ==
  [][/\ Ran("Set") =>
          /\ (compaction'.res # "None") = (seek_end(W) > 84000)
          /\ (compaction'.res = "Ok") =>
               (log' = Append(compaction'.log,
                              Line(SetCmd(last'.key, last'.value))))
          /\ (compaction'.res = "None") =>
               (log' = Append(log, Line(SetCmd(last'.key, last'.value))))
     /\ Ran("Get") => (log' = log /\ tmp' = tmp /\ files' = files)
     /\ Ran("Remove") =>
          /\ log' \in {log, Append(log, Line(RemoveCmd(last'.key)))}
          /\ tmp' = tmp /\ files' = files]_vars

\* A Set found the log over the threshold, compacted it, and appended its
\* record to the compacted log.
C22_SetCompactedThenAppended ==
  /\ last.op = "Set" /\ last.res = "Ok"
  /\ compaction.res = "Ok"
  /\ compaction.log # <<>>
  /\ last.at = FileLen(compaction.log)
  /\ FileLen(log) < 84000

\* The record a completed Set or Remove call c appends.
RecordFor(c) ==
  IF c.op = "Set" THEN SetCmd(c.key, c.value) ELSE RemoveCmd(c.key)

\* C23 (I2): a successful Set or Remove that does not run compaction leaves
\* the bytes of the log as they are and extends the log by one complete
\* record, written at the former end of the file; after a Set the keydir
\* points at that record.
C23_AppendOnly ==
  [][(/\ nops' = nops + 1
      /\ last'.op \in {"Set", "Remove"} /\ last'.res = "Ok"
      /\ last'.op = "Set" => compaction'.res = "None") =>
       /\ log' = Append(log, Line(RecordFor(last')))
       /\ last'.at = FileLen(log)
       /\ last'.op = "Set" => store'[last'.key] = FileLen(log)]_vars

\* The chunk is the complete line of a command.
Record(ch) == Complete(ch) /\ ch.cmd.op \in {"Set", "Remove"}

\* The index of the last record of key k in f, 0 when there is none.
LastOf(f, k) ==
  IF \E i \in DOMAIN f : f[i].cmd.key = k
  THEN CHOOSE i \in DOMAIN f :
         f[i].cmd.key = k /\ \A j \in DOMAIN f : f[j].cmd.key = k => j <= i
  ELSE 0

\* The keys whose last record in f is a Set.
LiveKeys(f) == {k \in Keys : LastOf(f, k) > 0 /\ f[LastOf(f, k)].cmd.op = "Set"}

\* C24: open on a log of complete records succeeds, and the keydir it
\* rebuilds maps every key whose last record is a Set to the offset of the
\* first byte of that record, the sum of the lengths of the lines before it,
\* and holds no key whose last record is a Remove.
C24_RehydrationFindsLastSets ==
  (last.op = "Open" /\ \A i \in DOMAIN log : Record(log[i])) =>
    /\ last.res = "Ok"
    /\ DOMAIN store = LiveKeys(log)
    /\ \A k \in DOMAIN store : store[k] = Start(log, LastOf(log, k))

\* A log of three records was opened: a key it sets and then removes is not
\* in the keydir, and a key is at an offset past the first record.
C24_OpenedLogWithRemove ==
  /\ last.op = "Open" /\ last.res = "Ok"
  /\ Len(log) = MaxLogLen /\ \A i \in DOMAIN log : Record(log[i])
  /\ log[1].cmd.op = "Set" /\ log[1].cmd.key \notin DOMAIN store
  /\ \E k \in DOMAIN store : store[k] > RecLen(log[1].cmd)

\* C25: a store that was opened on a log ending in an incomplete line, and
\* whose Set and Remove calls since then all succeeded, can be reopened: the
\* reopen succeeds and every key resolves to what it resolved to in the
\* store before.
C25_ReopenAfterTornTail ==
  [][(/\ up /\ clean /\ last'.op = "Open"
      /\ \E i \in DOMAIN log : ~Complete(log[i])) =>
       /\ last'.res = "Ok"
       /\ \A k \in Keys :
            get(World(store', write_log', files', log', tmp', unlinked'),
                k, FALSE) = get(W, k, FALSE)]_vars

\* Chunks i..j of f are a newline-terminated line that is not the text of
\* a command: bytes that are not UTF-8, or the bytes a cut write left with
\* the record appended behind them.
BadLine(f, i, j) ==
  /\ i <= j /\ Complete(f[j])
  /\ \A m \in i..(j - 1) : ~Complete(f[m])
  /\ i > 1 => Complete(f[i - 1])
  /\ i < j \/ f[i].cmd.op = "Binary"

\* C26: open on a log that holds a complete line which does not decode to a
\* Set or Remove command fails with InvalidData: no store is returned and
\* the directory and the log are as they were.
C26_BadLineIsInvalidData ==
  [][(last'.op = "Open" /\ \E i, j \in DOMAIN log : BadLine(log, i, j)) =>
       /\ last'.res = "InvalidData"
       /\ ~up'
       /\ log' = log /\ files' = files]_vars

\* The line at byte offset o of f is a complete Set record of key k.
SetLineAt(f, o, k) ==
  /\ read_line(f, o).skip = 0
  /\ Len(read_line(f, o).chunks) = 1
  /\ Record(read_line(f, o).chunks[1])
  /\ read_line(f, o).chunks[1].cmd.op = "Set"
  /\ read_line(f, o).chunks[1].cmd.key = k

\* C27: compaction starts from an empty temporary file, also when a file of
\* that name was left by an earlier compaction, so that the file renamed
\* over the log holds the records this compaction wrote and nothing else,
\* and the offsets it put in the keydir, counted from 0, are the offsets of
\* those records.
C27_CompactionStartsFromEmptyFile ==
  compaction.res = "Ok" =>
    /\ Len(compaction.log) = Cardinality(DOMAIN compaction.store)
    /\ \A k \in DOMAIN compaction.store :
         SetLineAt(compaction.log, compaction.store[k], k)

\* C28: between the calls on an open store, after a compaction that
\* succeeded and after one that failed, the temporary file of compaction is
\* not in the directory, and kvs.db is.
C28_NoTemporaryFileBetweenCalls ==
  up => (TmpName \notin files /\ LogName \in files)

\* The total encoded size of one Set record per key of the bindings m.
RECURSIVE LiveLen(_)
LiveLen(m) ==
  IF DOMAIN m = {} THEN 0
  ELSE LET k == CHOOSE x \in DOMAIN m : TRUE
       IN RecLen(SetCmd(k, m[k])) + LiveLen(erase(m, k))

Max(x, y) == IF x >= y THEN x ELSE y

\* C29: after every successful Set the log is no longer than the larger of
\* the threshold of 84,000 bytes and the size of one Set record per live
\* key, plus the record this Set appended after its size check; and a Get
\* of the key returns the value set.
C29_LogLengthIsBounded ==
  [][(nops' = nops + 1 /\ last'.op = "Set" /\ last'.res = "Ok") =>
       /\ FileLen(log') <=
            Max(84000, LiveLen(shadow))
            + RecLen(SetCmd(last'.key, last'.value))
       /\ get(World(store', write_log', files', log', tmp', unlinked'),
              last'.key, FALSE) = Result("Some", last'.value)]_vars

\* A call returned in this step.
Returned == last' # last /\ last'.op \in {"Set", "Get", "Remove"}

\* C30: a panic inside a Set or Remove, which holds the write lock, poisons
\* the lock of the store, and from then on every Set, Get and Remove on
\* every clone panics instead of returning a result; a panic inside a Get,
\* which holds the read lock, does not poison it.
C30_WritePanicPoisonsLock ==
  [][Returned =>
       /\ (~poisoned /\ last'.op # "Get" /\ last'.res = "Panic") => poisoned'
       /\ (~poisoned /\ last'.op = "Get") => ~poisoned'
       /\ (~poisoned /\ last'.res # "Panic") => ~poisoned'
       /\ poisoned => (poisoned' /\ last'.res = "Panic")]_vars

\* The compaction of a Set found a Remove record at an offset of the keydir
\* and panicked, and a Get called after it panicked at the lock.
C30_GetPanicsOnPoisonedLock ==
  /\ poisoned
  /\ last.op = "Get" /\ last.res = "Panic"
  /\ \E k \in DOMAIN store : RecordOf(k).ok /\ RecordOf(k).cmd.op = "Remove"

\* A Get found a Remove record at the offset of its key and panicked, and
\* the lock is not poisoned.
C30_GetPanicLeavesLockUsable ==
  /\ ~poisoned
  /\ last.op = "Get" /\ last.res = "Panic"

\* Thread t waits for a guard that the lock cannot grant now.
Blocked(t) ==
  /\ pc[t] = "waiting"
  /\ ~(IF IsWrite(req[t]) THEN CanWrite(pc) ELSE CanRead(pc))

\* C31: engine calls never deadlock.  In no state is every thread that is in a
\* call blocked on the lock, and under a fair lock every call that was
\* invoked comes to its end: it returns, or it ends in the panic of a
\* poisoned lock, which drops the guard as a return does.
C31_EveryCallEnds ==
  /\ [](\A t \in Threads : Blocked(t) => \E u \in Threads \ {t} :
                                            Pending(u) /\ ~Blocked(u))
  /\ \A t \in Threads : Pending(t) ~> ~Pending(t)

\* A Set waits for the write guard while the other thread reads the log under
\* the read guard.
C31_SetWaitsForLock ==
  \E t, u \in Threads :
    /\ pc[t] = "waiting" /\ req[t].op = "Set" /\ Blocked(t)
    /\ pc[u] = "read_file" /\ req[u].op = "Get"
    /\ last.op = "Remove" /\ nops = MaxConcOps

\* The SharedQueueThreadPool that new returned has been dropped.
Dropped == pool.kind = "shared" /\ pool.res = "Ok" /\ ~pool.sender

\* The jobs the channel accepted have all been run to their end.
AllJobsRan ==
  \A j \in DOMAIN jobs :
    jobs[j].spawn = "Ok" => jobs[j].state \in {"done", "panicked"}

\* C32: a worker of a SharedQueueThreadPool leaves its loop only when the
\* sender is gone and the queue is empty; after the drop of a SharedQueueThreadPool a job leaves the
\* queue only to be run by a worker, and in the end every job that was
\* enqueued has been executed and every worker has terminated.
C32_DropDrainsQueue ==
  /\ [][/\ (/\ pool.kind = "shared"
            /\ \E w \in DOMAIN workers :
                 workers[w].state # "exited" /\ workers'[w].state = "exited")
            => (queue = <<>> /\ ~pool.sender)
        /\ (Dropped /\ queue' # queue)
            => (\E w \in DOMAIN workers :
                  /\ workers'[w] = Worker("running", Head(queue))
                  /\ queue' = Tail(queue))]_vars
  /\ Dropped ~> (AllJobsRan /\ queue = <<>> /\ Receivers(workers) = {})

\* A pool of the most threads was dropped with jobs in its queue: they
\* have all been executed and every worker has left its loop.
C32_QueuedJobsRanAfterDrop ==
  /\ Dropped /\ pool.left > 0 /\ pool.threads = MaxThreads
  /\ Len(jobs) = MaxJobs /\ AllJobsRan
  /\ Receivers(workers) = {}

\* The results of an engine call that are an Err other than NoKey.
Failed(r) == r.res \notin {"Ok", "Some", "None", "NoKey", "Panic"}

\* C33: the handlers surface engine failures: a Remove is answered
\* key_found = false only when the engine returned NoKey, and an engine call
\* that failed otherwise is answered with a failure, not with a reply and
\* not with a panic of the handler.
C33_HandlersSurfaceFailures ==
  (started.by = "server" /\ last.op \in {"Set", "Get", "Remove"}) =>
    /\ (last.op = "Remove" /\ Served.kind = "Ok" /\ ~Served.key_found)
         => last.res = "NoKey"
    /\ Failed(last) => Served.kind = "Status"
====
